---- MODULE Spec2Model ----
(***************************************************************************)
(* cmdnotify: run /bin/<program> with its arguments, wait for it, then     *)
(* launch /bin/notify-send with a summary of the exit status.              *)
(*                                                                         *)
(* Modelled program: src/cmdnotify.c, the translation unit that starts at  *)
(* line 181 (run_prog, create_progpath, prog_exists, notify,               *)
(* notify_status, main).                                                   *)
(*                                                                         *)
(* Processes: "parent" is the invocation of cmdnotify itself, "child" is   *)
(* the process fork()ed in run_prog.  Every process that executes main's   *)
(* code may fork one notifier process in notify (npc).                     *)
(***************************************************************************)
EXTENDS Integers, Sequences, FiniteSets, TLC

(* ---------------- bounds of the model ---------------- *)

\* argc ranges over 1..MaxArgc
MaxArgc == 4

\* the target may exit with any code in 0..MaxExit, or with 255
MaxExit == 2

(* ---------------- program and platform constants ---------------- *)

DEFAULT_BINDIR_PREFIX == "/bin/"

NOTIFY_SEND_BINLOC == DEFAULT_BINDIR_PREFIX \o "notify-send"

SUCCESS_SUMMARY == "Success"

FAILURE_SUMMARY == "Error"

\* sizeof(char *) on the LP64 targets the program is built for
PtrSize == 8

\* signal numbers (Linux): abort() raises SIGABRT
SIGABRT == 6

(* ---------------- the environment's input sets ---------------- *)

PROCS == {"parent", "child"}

ProgNames == {"true", "ls"}

ArgWords == {"-l"}

\* exit codes a target may return
ExitCodes == (0..MaxExit) \cup {255}

\* signals that may terminate a process: SIGKILL, SIGSEGV
Signals == {9, 11}

\* the signal that kills a process that runs into invalid code or memory
CrashSignal == CHOOSE s \in Signals : s > 9

\* the files of the fixed directory: the notifier and the target programs
Files == {NOTIFY_SEND_BINLOC} \cup {DEFAULT_BINDIR_PREFIX \o p : p \in ProgNames}

\* a file is absent, present but not executable, or present and executable
FileStates == {"absent", "noexec", "exec"}

\* C-string content (the bytes before the first NUL) that a buffer fresh from
\* malloc may hold: malloc does not initialise it.  "" is a buffer whose
\* first byte happens to be NUL.
HeapPrior == {"", "~"}

\* outcomes of returning from a failed exec into __builtin_unreachable()
UnreachableOutcomes == {"fallthrough", "crash"}

VARIABLES
    argc,       \* main's argc
    argv,       \* main's argv[0..argc-1]
    euid,       \* geteuid()
    fs,         \* state of each file of Files
    pc,         \* position of each process that runs main's code
    status,     \* main's local `status' in each process
    progpath,   \* run_prog's progpath (as created before the fork)
    overflow,   \* create_progpath wrote past the end of progpath's buffer
    exists,     \* what prog_exists returned: "unset", "true" or "false"
    argbuf,     \* the argument vector main has built so far (NULL is "NULL")
    argbufSize, \* bytes last requested from malloc/realloc for argbuf
    wstatus,    \* wait status of each process, -1 while it has not terminated
    reaped,     \* the parent's waitpid has collected the child
    npc,        \* state of the notifier process forked by each process
    notifyArgs, \* (summary, body) each process passed to notify
    targetExecs,\* successful execv calls of the target, in order
    notifySends,\* successful execl calls of notify-send, in order
    forks,      \* number of processes created by fork
    stderr      \* lines written to standard error

vars == << argc, argv, euid, fs, pc, status, progpath, overflow, exists,
           argbuf, argbufSize, wstatus, reaped, npc, notifyArgs,
           targetExecs, notifySends, forks, stderr >>

inputs == << argc, argv, euid, fs >>

(* ---------------- libc and system calls ---------------- *)

\* access(path, F_OK) == 0
access(path) == path \in DOMAIN fs /\ fs[path] # "absent"

\* whether execv/execl of path succeeds
CanExec(path) == path \in DOMAIN fs /\ fs[path] = "exec"

\* strcat: src is appended at the first NUL of dest
strcat(dest, src) == dest \o src

\* the wait status of exit(code)
W_EXITCODE(code) == (code % 256) * 256

\* WEXITSTATUS(status): bits 8..15 of the wait status
WEXITSTATUS(s) == (s \div 256) % 256

\* WIFSIGNALED(status): the low seven bits hold the signal number
WIFSIGNALED(s) == s >= 0 /\ s % 128 # 0

(* ---------------- pure functions of the program ---------------- *)

\* create_progpath: heap is what the unitialised buffer holds before the
\* two strcat calls.  size is the number of bytes allocated.
create_progpath(heap, progname) ==
    LET pathlen == Len(DEFAULT_BINDIR_PREFIX) + Len(progname)
        path    == strcat(strcat(heap, DEFAULT_BINDIR_PREFIX), progname)
    IN  [ path     |-> path,
          size     |-> pathlen + 1,
          overflow |-> Len(path) + 1 > pathlen + 1 ]

\* prog_exists, given the prior content of the buffer create_progpath gets
prog_exists(heap, progname) == access(create_progpath(heap, progname).path)

\* notify_status: the summary chosen for a status
Summary(st) == IF st = 0 THEN SUCCESS_SUMMARY ELSE FAILURE_SUMMARY

\* notify_status: the body; program names here are far shorter than
\* MAX_BODY_BUFSIZE, so snprintf does not truncate
Body(cmd, st) == "'" \o cmd \o "' returned " \o ToString(st)

\* main: the vector the loop and the terminating store are written to
\* build, argv[1], ..., argv[argc - 1], NULL
BuildArgbuf == [i \in 1..argc |-> IF i < argc THEN argv[i] ELSE "NULL"]

\* main: argbuf_entries after the loop
argbuf_entries == 1 + (IF argc > 2 THEN argc - 2 ELSE 0)

\* main: the size requested by the last realloc
FinalArgbufSize == PtrSize + (argbuf_entries + 1)

\* a store to argbuf[idx] lies within `size' bytes
StoreInBounds(idx, size) == (idx + 1) * PtrSize <= size

(* ---------------- initial state ---------------- *)

NoNotifyArgs == [summary |-> "", body |-> ""]

Init ==
    /\ argc \in 1..MaxArgc
    /\ argv \in [0..(argc - 1) -> {"cmdnotify"} \cup ProgNames \cup ArgWords]
    /\ argv[0] = "cmdnotify"
    /\ \A i \in 1..(argc - 1) : IF i = 1 THEN argv[i] \in ProgNames
                                         ELSE argv[i] \in ArgWords
    /\ euid \in {0, 1000}
    /\ fs \in [Files -> FileStates]
    /\ pc = [p \in PROCS |-> IF p = "parent" THEN "argc" ELSE "none"]
    /\ status = [p \in PROCS |-> 0]
    /\ progpath = ""
    /\ overflow = FALSE
    /\ exists = "unset"
    /\ argbuf = << >>
    /\ argbufSize = 0
    /\ wstatus = [p \in PROCS |-> -1]
    /\ reaped = FALSE
    /\ npc = [p \in PROCS |-> "none"]
    /\ notifyArgs = [p \in PROCS |-> NoNotifyArgs]
    /\ targetExecs = << >>
    /\ notifySends = << >>
    /\ forks = 0
    /\ stderr = << >>

(* ---------------- process termination ---------------- *)

\* return from main / exit(code) in process p
Exit(p, code) ==
    /\ pc' = [pc EXCEPT ![p] = "exited"]
    /\ wstatus' = [wstatus EXCEPT ![p] = W_EXITCODE(code)]

\* abort(): process p is terminated by SIGABRT
Abort(p) ==
    /\ pc' = [pc EXCEPT ![p] = "aborted"]
    /\ wstatus' = [wstatus EXCEPT ![p] = SIGABRT]

(* ---------------- main: the precondition checks ---------------- *)

TooFewArgs_off == argc < 1

\* main: argc < 2
TooFewArgs == argc < 2

IsRoot_off == euid < 0

\* main: geteuid() == 0
IsRoot == euid = 0

NotifierMissing_off == FALSE

\* main: access("/bin/notify-send", F_OK) != 0
NotifierMissing == ~access(NOTIFY_SEND_BINLOC)

main_argc ==
    /\ pc["parent"] = "argc"
    /\ IF TooFewArgs
       THEN /\ stderr' = Append(stderr, "Error: Too few arguments!")
            /\ Exit("parent", 1)
       ELSE /\ pc' = [pc EXCEPT !["parent"] = "euid"]
            /\ UNCHANGED << stderr, wstatus >>
    /\ UNCHANGED << inputs, status, progpath, overflow, exists, argbuf,
                    argbufSize, reaped, npc, notifyArgs, targetExecs,
                    notifySends, forks >>

main_euid ==
    /\ pc["parent"] = "euid"
    /\ IF IsRoot
       THEN /\ stderr' = Append(stderr, "Please do not run as root.")
            /\ Exit("parent", 1)
       ELSE /\ pc' = [pc EXCEPT !["parent"] = "notifier"]
            /\ UNCHANGED << stderr, wstatus >>
    /\ UNCHANGED << inputs, status, progpath, overflow, exists, argbuf,
                    argbufSize, reaped, npc, notifyArgs, targetExecs,
                    notifySends, forks >>

main_notifier ==
    /\ pc["parent"] = "notifier"
    /\ IF NotifierMissing
       THEN /\ stderr' = Append(stderr, "Error: notify-send not found!")
            /\ Exit("parent", 1)
       ELSE /\ pc' = [pc EXCEPT !["parent"] = "prog_exists"]
            /\ UNCHANGED << stderr, wstatus >>
    /\ UNCHANGED << inputs, status, progpath, overflow, exists, argbuf,
                    argbufSize, reaped, npc, notifyArgs, targetExecs,
                    notifySends, forks >>

AfterProgExists_ignored(found) ==
    /\ exists' = IF found THEN "true" ELSE "false"
    /\ pc' = [pc EXCEPT !["parent"] = "argbuf"]
    /\ UNCHANGED << stderr, wstatus >>

\* what main does with the value prog_exists returned
AfterProgExists(found) ==
    /\ exists' = IF found THEN "true" ELSE "false"
    /\ IF ~found
       THEN /\ stderr' = stderr \o << "Failed to execute "
                                      \o DEFAULT_BINDIR_PREFIX \o argv[1],
                                      "access: error" >>
            /\ Exit("parent", 1)
       ELSE /\ pc' = [pc EXCEPT !["parent"] = "argbuf"]
            /\ UNCHANGED << stderr, wstatus >>

\* main: if (!prog_exists(argv[1])) ... return 1.  The strcat calls in
\* create_progpath write past the buffer when it did not start with NUL;
\* the free() that follows either goes through or detects the damage and
\* aborts.
main_prog_exists ==
    /\ pc["parent"] = "prog_exists"
    /\ \E heap \in HeapPrior :
          \/ AfterProgExists(prog_exists(heap, argv[1]))
          \/ /\ create_progpath(heap, argv[1]).overflow
             /\ Abort("parent")
             /\ UNCHANGED << exists, stderr >>
    /\ UNCHANGED << inputs, status, progpath, overflow, argbuf, argbufSize,
                    reaped, npc, notifyArgs, targetExecs, notifySends, forks >>

\* what a slot of argbuf reads as when its bytes are not part of the block
\* the last realloc returned
Indeterminate == "?"

\* outcomes of the terminating store when it lies outside the block: the
\* vector reads back as stored, or its slots outside the block read back as
\* something else, or the allocator detects the damage and aborts
ArgbufOutcomes == {"intact", "clobbered", "abort"}

\* the vector with every slot that is not entirely within `size' bytes
\* indeterminate
Clobber(vec, size) ==
    [k \in DOMAIN vec |-> IF StoreInBounds(k - 1, size) THEN vec[k]
                                                        ELSE Indeterminate]

\* main: argbuf = malloc(sizeof(char *)); argbuf[0] = argv[1];
main_argbuf ==
    /\ pc["parent"] = "argbuf"
    /\ argbufSize' = PtrSize
    /\ argbuf' = << argv[1] >>
    /\ pc' = [pc EXCEPT !["parent"] = "argbuf_loop"]
    /\ UNCHANGED << inputs, status, progpath, overflow, exists, wstatus,
                    reaped, npc, notifyArgs, targetExecs, notifySends, forks,
                    stderr >>

\* main: one iteration of for (i = 2; i < argc; ++i): argbuf_entries is
\* incremented, argbuf is grown to argbuf_entries * sizeof(char *) bytes and
\* argv[i] is stored at argbuf[i - 1] (element i of the sequence).  Before
\* the iteration Len(argbuf) is argbuf_entries and i is Len(argbuf) + 1.
main_argbuf_loop ==
    /\ pc["parent"] = "argbuf_loop"
    /\ LET i       == Len(argbuf) + 1
           entries == Len(argbuf) + 1
       IN  /\ i < argc
           /\ argbufSize' = entries * PtrSize
           /\ argbuf' = [k \in 1..i |->
                            IF k = i THEN argv[i] ELSE argbuf[k]]
    /\ UNCHANGED << inputs, pc, status, progpath, overflow, exists, wstatus,
                    reaped, npc, notifyArgs, targetExecs, notifySends, forks,
                    stderr >>

\* main: after the loop, argbuf = realloc(argbuf, sizeof(char *) +
\* (argbuf_entries + 1)); argbuf[argbuf_entries] = NULL;
main_argbuf_end ==
    /\ pc["parent"] = "argbuf_loop"
    /\ ~(Len(argbuf) + 1 < argc)
    /\ Len(argbuf) = argbuf_entries
    /\ argbufSize' = FinalArgbufSize
    /\ \E outcome \in ArgbufOutcomes :
          LET stored == Append(argbuf, "NULL") IN
          /\ outcome # "intact"
                => ~StoreInBounds(argbuf_entries, FinalArgbufSize)
          /\ argbuf' = IF outcome = "clobbered"
                       THEN Clobber(stored, FinalArgbufSize)
                       ELSE stored
          /\ IF outcome = "abort"
             THEN Abort("parent")
             ELSE /\ pc' = [pc EXCEPT !["parent"] = "run_prog"]
                  /\ UNCHANGED wstatus
    /\ UNCHANGED << inputs, status, progpath, overflow, exists, reaped, npc,
                    notifyArgs, targetExecs, notifySends, forks, stderr >>

(* ---------------- run_prog ---------------- *)

\* run_prog up to the fork: create_progpath, fork, assert(child >= 0).
\* The child starts as a copy of the parent (status = 0, same progpath).
run_prog_fork ==
    /\ pc["parent"] = "run_prog"
    /\ \E heap \in HeapPrior, forked \in BOOLEAN :
          LET r == create_progpath(heap, argv[1]) IN
          /\ progpath' = r.path
          /\ overflow' = r.overflow
          /\ IF forked
             THEN /\ pc' = [pc EXCEPT !["parent"] = "waitpid",
                                      !["child"] = "execv"]
                  /\ forks' = forks + 1
                  /\ UNCHANGED << wstatus, stderr >>
             ELSE /\ stderr' = Append(stderr, "Assertion `child >= 0' failed.")
                  /\ Abort("parent")
                  /\ UNCHANGED forks
    /\ UNCHANGED << inputs, status, exists, argbuf, argbufSize, reaped, npc,
                    notifyArgs, targetExecs, notifySends >>

\* run_prog, child side: execv(progpath, argv).  execv fails when the file
\* cannot be executed, and may fail (EFAULT) when the vector holds an
\* indeterminate pointer.  When execv fails it returns, and control reaches
\* __builtin_unreachable(): the child either carries on with the code that
\* follows (the parent side of run_prog) or runs into invalid code and is
\* killed.
child_execv ==
    /\ pc["child"] = "execv"
    /\ \E readable \in BOOLEAN :
          /\ ~readable => \E k \in DOMAIN argbuf : argbuf[k] = Indeterminate
          /\ IF CanExec(progpath) /\ readable
             THEN /\ targetExecs' = Append(targetExecs,
                                      [path |-> progpath, argv |-> argbuf])
                  /\ pc' = [pc EXCEPT !["child"] = "target"]
                  /\ UNCHANGED wstatus
             ELSE /\ UNCHANGED targetExecs
                  /\ \E outcome \in UnreachableOutcomes :
                        IF outcome = "fallthrough"
                        THEN /\ pc' = [pc EXCEPT !["child"] = "waitpid"]
                             /\ UNCHANGED wstatus
                        ELSE /\ pc' = [pc EXCEPT !["child"] = "killed"]
                             /\ wstatus' = [wstatus EXCEPT
                                               !["child"] = CrashSignal]
    /\ UNCHANGED << inputs, status, progpath, overflow, exists, argbuf,
                    argbufSize, reaped, npc, notifyArgs, notifySends, forks,
                    stderr >>

\* the target program, running in the child, terminates: it exits with a
\* code or is killed by a signal
target_terminates ==
    /\ pc["child"] = "target"
    /\ \/ \E code \in ExitCodes :
             /\ pc' = [pc EXCEPT !["child"] = "exited"]
             /\ wstatus' = [wstatus EXCEPT !["child"] = W_EXITCODE(code)]
       \/ \E sig \in Signals :
             /\ pc' = [pc EXCEPT !["child"] = "killed"]
             /\ wstatus' = [wstatus EXCEPT !["child"] = sig]
    /\ UNCHANGED << inputs, status, progpath, overflow, exists, argbuf,
                    argbufSize, reaped, npc, notifyArgs, targetExecs,
                    notifySends, forks, stderr >>

run_prog_result_raw(ws) == ws

\* run_prog: the value returned for the wait status the loop left in status
run_prog_result(ws) == WEXITSTATUS(ws)

\* run_prog, parent side: while (waitpid(child, &status, 0) > 0);
\* free(progpath); return WEXITSTATUS(status).
\*  - in the parent, waitpid blocks until the child has terminated, stores
\*    its wait status, and the next call fails with ECHILD;
\*  - in a child that fell through, child == 0 and there is nothing to wait
\*    for: waitpid fails at once and status keeps its initial 0.
\* free() of a buffer that was overrun either goes through or aborts.
run_prog_wait(p) ==
    /\ pc[p] = "waitpid"
    /\ IF p = "parent"
       THEN /\ wstatus["child"] # -1
            /\ ~reaped
            /\ reaped' = TRUE
       ELSE UNCHANGED reaped
    /\ \/ /\ status' = [status EXCEPT ![p] =
                          run_prog_result(IF p = "parent" THEN wstatus["child"]
                                                         ELSE 0)]
          /\ pc' = [pc EXCEPT ![p] = "notify_status"]
          /\ UNCHANGED wstatus
       \/ /\ overflow
          /\ Abort(p)
          /\ UNCHANGED status
    /\ UNCHANGED << inputs, progpath, overflow, exists, argbuf, argbufSize,
                    npc, notifyArgs, targetExecs, notifySends, forks, stderr >>

(* ---------------- notify_status and notify ---------------- *)

\* notify_status up to the fork in notify: the summary and body are built
\* and passed to notify, which forks; the result of fork is only compared
\* with 0, so a failed fork (-1) is treated like the parent side.
notify_status(p) ==
    /\ pc[p] = "notify_status"
    /\ notifyArgs' = [notifyArgs EXCEPT ![p] =
                        [summary |-> Summary(status[p]),
                         body    |-> Body(argv[1], status[p])]]
    /\ \E forked \in BOOLEAN :
          IF forked
          THEN /\ npc' = [npc EXCEPT ![p] = "forked"]
               /\ forks' = forks + 1
          ELSE /\ npc' = [npc EXCEPT ![p] = "failed"]
               /\ UNCHANGED forks
    /\ pc' = [pc EXCEPT ![p] = "wait"]
    /\ UNCHANGED << inputs, status, progpath, overflow, exists, argbuf,
                    argbufSize, wstatus, reaped, targetExecs, notifySends,
                    stderr >>

\* notify, child side: execl("/bin/notify-send", ..., summary, body, NULL).
\* When execl fails the notifier child reaches __builtin_unreachable();
\* whatever it then does, it forks nothing and terminates.
notifier_execl(p) ==
    /\ npc[p] = "forked"
    /\ IF CanExec(NOTIFY_SEND_BINLOC)
       THEN /\ notifySends' = Append(notifySends,
                                [by      |-> p,
                                 summary |-> notifyArgs[p].summary,
                                 body    |-> notifyArgs[p].body])
            /\ npc' = [npc EXCEPT ![p] = "running"]
       ELSE /\ npc' = [npc EXCEPT ![p] = "zombie"]
            /\ UNCHANGED notifySends
    /\ UNCHANGED << inputs, pc, status, progpath, overflow, exists, argbuf,
                    argbufSize, wstatus, reaped, notifyArgs, targetExecs,
                    forks, stderr >>

\* notify-send terminates
notifier_terminates(p) ==
    /\ npc[p] = "running"
    /\ npc' = [npc EXCEPT ![p] = "zombie"]
    /\ UNCHANGED << inputs, pc, status, progpath, overflow, exists, argbuf,
                    argbufSize, wstatus, reaped, notifyArgs, targetExecs,
                    notifySends, forks, stderr >>

\* notify, parent side: while (wait(&tmp) > 0); then notify_status frees
\* the body.  wait blocks until the notifier has terminated; with no child
\* (the fork failed) it fails at once.
notify_wait(p) ==
    /\ pc[p] = "wait"
    /\ npc[p] \in {"zombie", "failed"}
    /\ npc' = [npc EXCEPT ![p] = IF npc[p] = "zombie" THEN "reaped" ELSE @]
    /\ pc' = [pc EXCEPT ![p] = "return"]
    /\ UNCHANGED << inputs, status, progpath, overflow, exists, argbuf,
                    argbufSize, wstatus, reaped, notifyArgs, targetExecs,
                    notifySends, forks, stderr >>

\* main: free(argbuf); return status;
main_return(p) ==
    /\ pc[p] = "return"
    /\ Exit(p, status[p])
    /\ UNCHANGED << inputs, status, progpath, overflow, exists, argbuf,
                    argbufSize, reaped, npc, notifyArgs, targetExecs,
                    notifySends, forks, stderr >>

(* ---------------- the specification ---------------- *)

Next ==
    \/ main_argc
    \/ main_euid
    \/ main_notifier
    \/ main_prog_exists
    \/ main_argbuf
    \/ main_argbuf_loop
    \/ main_argbuf_end
    \/ run_prog_fork
    \/ child_execv
    \/ target_terminates
    \/ \E p \in PROCS : run_prog_wait(p)
    \/ \E p \in PROCS : notify_status(p)
    \/ \E p \in PROCS : notifier_execl(p)
    \/ \E p \in PROCS : notifier_terminates(p)
    \/ \E p \in PROCS : notify_wait(p)
    \/ \E p \in PROCS : main_return(p)

Spec == Init /\ [][Next]_vars

(* ---------------- vocabulary of the properties ---------------- *)

\* the process has terminated
Terminated(p) == pc[p] \in {"exited", "killed", "aborted"}

\* the child exists and has not terminated
ChildAlive == pc["child"] # "none" /\ ~Terminated("child")

\* the notifier process forked by p exists and has not terminated
NotifierAlive(p) == npc[p] \in {"forked", "running"}

\* the target program was executed and exited normally with code n
TargetExited(n) ==
    /\ targetExecs # << >>
    /\ pc["child"] = "exited"
    /\ wstatus["child"] = W_EXITCODE(n)

\* the target program was executed and was killed by a signal
TargetSignaled ==
    /\ targetExecs # << >>
    /\ pc["child"] = "killed"
    /\ WIFSIGNALED(wstatus["child"])

\* no process was created and nothing was executed
NothingLaunched ==
    /\ forks = 0
    /\ pc["child"] = "none"
    /\ \A p \in PROCS : npc[p] = "none"
    /\ targetExecs = << >>
    /\ notifySends = << >>

\* main returned 1 in the parent
ParentExited1 == pc["parent"] = "exited" /\ wstatus["parent"] = W_EXITCODE(1)

(* ---------------- C1 ---------------- *)

\* C1: when the target program was executed and exited normally with code
\* N, the parent does not abort, the summary it passes to notify (and any
\* notify-send it launches) is "Success" if N = 0 and "Error" otherwise,
\* and main returns N.
C1_StatusAndSummary ==
    \A n \in 0..255 :
        TargetExited(n) =>
            LET expected == IF n = 0 THEN "Success" ELSE "Error" IN
            /\ pc["parent"] # "aborted"
            /\ pc["parent"] \in {"wait", "return", "exited"}
                  => notifyArgs["parent"].summary = expected
            /\ \A i \in DOMAIN notifySends :
                  notifySends[i].by = "parent"
                      => notifySends[i].summary = expected
            /\ pc["parent"] = "exited" => wstatus["parent"] = W_EXITCODE(n)

\* a run whose target exited with 2, reported as "Error", and main returned
C1_Witness ==
    /\ TargetExited(2)
    /\ pc["parent"] = "exited"
    /\ Len(notifySends) = 1
    /\ notifySends[1].summary = "Error"

(* ---------------- C2 ---------------- *)

\* C2: when prog_exists(argv[1]) returned false, main has returned 1 and no
\* process was forked and nothing executed.
C2_MissingTarget ==
    exists = "false" => ParentExited1 /\ NothingLaunched

\* the target is absent, everything else is in order, and main returned
C2_Witness ==
    /\ exists = "false"
    /\ fs[DEFAULT_BINDIR_PREFIX \o argv[1]] = "absent"
    /\ pc["parent"] = "exited"

(* ---------------- C3 ---------------- *)

\* C3: the check for notify-send comes before any fork: nothing is launched
\* while the parent is at or before the check, and when notify-send is
\* absent the parent never gets past the check other than by returning 1.
C3_MissingNotifier ==
    /\ pc["parent"] \in {"argc", "euid", "notifier"} => NothingLaunched
    /\ ~access(NOTIFY_SEND_BINLOC) =>
          /\ NothingLaunched
          /\ pc["parent"] \in {"argc", "euid", "notifier", "exited"}
          /\ pc["parent"] = "exited" => ParentExited1

\* notify-send is absent, the other checks would pass, and main returned
C3_Witness ==
    /\ ~access(NOTIFY_SEND_BINLOC)
    /\ argc >= 2
    /\ euid # 0
    /\ access(DEFAULT_BINDIR_PREFIX \o argv[1])
    /\ pc["parent"] = "exited"
    /\ stderr = << "Error: notify-send not found!" >>

(* ---------------- C4 ---------------- *)

\* C4: with argc < 2 the parent goes from the argc check straight to
\* returning 1; run_prog and notify are not reached and nothing is launched.
C4_TooFewArguments ==
    argc < 2 =>
        /\ NothingLaunched
        /\ pc["parent"] \in {"argc", "exited"}
        /\ pc["parent"] = "exited" => ParentExited1
        /\ \A p \in PROCS : notifyArgs[p] = NoNotifyArgs

\* no target was given and main returned
C4_Witness ==
    /\ argc < 2
    /\ pc["parent"] = "exited"
    /\ stderr = << "Error: Too few arguments!" >>

(* ---------------- C5 ---------------- *)

\* C5: with effective user id 0 the parent never gets past the privilege
\* check other than by returning 1, whatever argc, argv and the files are,
\* and nothing is launched.
C5_Root ==
    euid = 0 =>
        /\ NothingLaunched
        /\ pc["parent"] \in {"argc", "euid", "exited"}
        /\ pc["parent"] = "exited" => ParentExited1

\* root, with a target and a notifier that are both executable
C5_Witness ==
    /\ euid = 0
    /\ argc >= 2
    /\ CanExec(NOTIFY_SEND_BINLOC)
    /\ CanExec(DEFAULT_BINDIR_PREFIX \o argv[1])
    /\ pc["parent"] = "exited"
    /\ stderr = << "Please do not run as root." >>

(* ---------------- C6 ---------------- *)

\* C6: in a run that passed the precondition checks, in which the path was
\* created as intended, every fork succeeded and notify-send is executable,
\* once main has returned in the parent the target was executed exactly
\* once and notify-send was launched exactly once; this includes the run in
\* which execv of the target failed in the child.
C6_ExactlyOnce ==
    ( /\ pc["parent"] = "exited"
      /\ exists = "true"
      /\ progpath = DEFAULT_BINDIR_PREFIX \o argv[1]
      /\ CanExec(NOTIFY_SEND_BINLOC)
      /\ \A p \in PROCS : npc[p] # "failed" )
    => /\ Len(targetExecs) = 1
       /\ Len(notifySends) = 1

(* ---------------- C7 ---------------- *)

\* C7: (with the path created as intended) no notifier process is alive
\* while the child is alive: a notifier exists only after the child has
\* terminated and the parent has reaped it, and the parent has terminated
\* only when no notifier is alive.
C7_NoOverlap ==
    (pc["child"] # "none" /\ progpath = DEFAULT_BINDIR_PREFIX \o argv[1]) =>
        /\ \A p \in PROCS : NotifierAlive(p) => ~ChildAlive /\ reaped
        /\ Terminated("parent") => \A p \in PROCS : ~NotifierAlive(p)

(* ---------------- C8 ---------------- *)

\* C8: when the target was killed by a signal, the status run_prog returned
\* to main is not 0, the status of a successful normal exit.
C8_SignalStatus ==
    ( /\ TargetSignaled
      /\ pc["parent"] \in {"notify_status", "wait", "return", "exited"} )
    => status["parent"] # 0

(* ---------------- C9 ---------------- *)

\* C9: when the target exited with code N and the fork in notify then
\* failed in the parent, then once notify has returned the parent was not
\* aborted, a line was written to standard error, and main returns N.
C9_NotifierForkFailure ==
    \A n \in 0..255 :
        ( /\ TargetExited(n)
          /\ npc["parent"] = "failed"
          /\ pc["parent"] \in {"return", "exited", "aborted"} )
        => /\ pc["parent"] # "aborted"
           /\ stderr # << >>
           /\ pc["parent"] = "exited" => wstatus["parent"] = W_EXITCODE(n)

(* ---------------- C10 ---------------- *)

\* C10: whatever the fresh buffer held, the path run_prog created for the
\* child is exactly "/bin/" followed by the program name, the path whose
\* existence prog_exists reported.
C10_ProgPath ==
    pc["child"] # "none" => progpath = "/bin/" \o argv[1]

(* ---------------- C11 ---------------- *)

\* C11: whenever main has stored into argbuf, the slot last stored to
\* (argbuf[0], then each argbuf[i - 1], then the NULL at argbuf[argc - 1])
\* lies entirely within the bytes most recently requested from malloc or
\* realloc for argbuf, and every vector passed to execv is argv[1], ...,
\* argv[argc - 1] followed by NULL.
C11_ArgbufStores ==
    /\ argbuf # << >> => StoreInBounds(Len(argbuf) - 1, argbufSize)
    /\ \A k \in DOMAIN targetExecs : targetExecs[k].argv = BuildArgbuf

====
